---- MODULE Spec2Model ----
(***************************************************************************)
(* SmartOutfit API (closet_app): the /recommend and /wear handlers of      *)
(* main.py over the users / clothes / worn_history tables, and the         *)
(* selection code of services/ai_stylist.py (heuristic scorer, category    *)
(* selector, external-model path with fallback).                           *)
(*                                                                         *)
(* Scores are kept in integer units: one score point is ScoreUnit units    *)
(* and random.random() * 0.5 is a tie-breaker of 0 .. TieSteps-1 units,    *)
(* i.e. a value of [0, 0.5) points.                                        *)
(***************************************************************************)
EXTENDS Integers, Sequences, FiniteSets, Bags, TLC

VARIABLES users, clothes, worn_history, today, OPENAI_API_KEY, openai_client,
          rq, call, ret

vars == <<users, clothes, worn_history, today, OPENAI_API_KEY, openai_client,
          rq, call, ret>>

dbvars == <<users, clothes, worn_history, today, OPENAI_API_KEY, openai_client>>

(***************************************************************************)
(* Bounds of the model.                                                    *)
(***************************************************************************)
\* random.random() * 0.5 takes TieSteps values, 0 .. TieSteps-1 units
TieSteps == 2
\* longest candidate list handed to recommend_outfit in SelectSpec
MaxCandidates == 3
\* rows of worn_history (the counter of /wear inserts is capped here)
MaxEvents == 2
\* largest wash_cycle_days stored for a user
MaxCadence == 2
\* longest cloth_ids list of one /wear request
MaxWearList == 2

(***************************************************************************)
(* JSON-like values: a Python None / JSON null, numbers, booleans.         *)
(* A dict is a function from keys to values; a missing key is a key that   *)
(* is not in its DOMAIN.                                                   *)
(***************************************************************************)
None == [t |-> "none"]
JInt(n) == [t |-> "int", v |-> n]
JBool(b) == [t |-> "bool", v |-> b]
JStr(s) == [t |-> "str", v |-> s]
JList(items) == [t |-> "list", v |-> items]
JDict(d) == [t |-> "dict", v |-> d]

\* dict.get(key, default)
Get(d, key, default) == IF key \in DOMAIN d THEN d[key] ELSE default

\* Python truthiness of the values above
Truthy(x) ==
    CASE x.t = "none" -> FALSE
      [] x.t = "int" -> x.v # 0
      [] x.t = "bool" -> x.v
      [] x.t = "str" -> x.v # ""
      [] x.t = "list" -> x.v # <<>>
      [] OTHER -> TRUE

\* Python's  x or y
Or(x, y) == IF Truthy(x) THEN x ELSE y

Abs(n) == IF n < 0 THEN -n ELSE n

(***************************************************************************)
(* Strings that the code inspects character by character are sequences of  *)
(* one-character strings.                                                  *)
(***************************************************************************)
LowerChar(ch) ==
    CASE ch = "R" -> "r"
      [] ch = "A" -> "a"
      [] ch = "I" -> "i"
      [] ch = "N" -> "n"
      [] ch = "C" -> "c"
      [] ch = "D" -> "d"
      [] OTHER -> ch

\* str.lower()
lower(s) == [i \in 1..Len(s) |-> LowerChar(s[i])]

\* str.startswith(prefix)
startswith(s, prefix) ==
    /\ Len(s) >= Len(prefix)
    /\ \A i \in 1..Len(prefix) : s[i] = prefix[i]

RainPrefix == <<"r", "a", "i", "n">>

(***************************************************************************)
(* services/ai_stylist.py : _heuristic_score                               *)
(***************************************************************************)
ScoreUnit == 2 * TieSteps

\* (a tie-breaker of whole points, as random.random() * 2 would give)
TieBreakers_wide == 0..(2 * ScoreUnit)
\* the values random.random() * 0.5 takes, in units
TieBreakers == 0..(TieSteps - 1)

\* (the breakpoints taken as exclusive upper bounds)
target_warmth_shifted(temp_c) ==
    IF temp_c < 5 THEN 5
    ELSE IF temp_c < 12 THEN 4
    ELSE IF temp_c < 18 THEN 3
    ELSE IF temp_c < 24 THEN 2
    ELSE 1
\* lines 174-183
target_warmth(temp_c) ==
    IF temp_c <= 5 THEN 5
    ELSE IF temp_c <= 12 THEN 4
    ELSE IF temp_c <= 18 THEN 3
    ELSE IF temp_c <= 24 THEN 2
    ELSE 1

\* item.get("features", {}).get("warmth_level") or 3
warmth_of(item) ==
    Or(Get(Get(item, "features", <<>>), "warmth_level", None), JInt(3)).v

\* weather.lower().startswith("rain") and not features.get("is_rain_ok", False)
rain_penalty(item, weather) ==
    IF /\ startswith(lower(weather), RainPrefix)
       /\ ~Truthy(Get(Get(item, "features", <<>>), "is_rain_ok", JBool(FALSE)))
    THEN 3 ELSE 0

\* the score without its tie-breaker, in points
base_score(item, temp_c, weather) ==
    10 - Abs(target_warmth(temp_c) - warmth_of(item)) - rain_penalty(item, weather)

\* tie is the value drawn from random.random() * 0.5, in units
heuristic_score(item, temp_c, weather, tie) ==
    ScoreUnit * base_score(item, temp_c, weather) + tie

(***************************************************************************)
(* services/ai_stylist.py : recommend_outfit                               *)
(* candidates is a sequence of dicts; ties[i] is the tie-breaker drawn     *)
(* when candidates[i] is scored (each candidate is scored exactly once).   *)
(***************************************************************************)
\* the label of line 205 (the Japanese word for "other")
FallbackLabel == "other"

\* (no common label for a missing category)
cat_of_nodefault(c) == Get(c, "category", c.cloth_id)
\* c.get("category", FallbackLabel)
cat_of(c) == Get(c, "category", FallbackLabel)

\* the indices of the candidates appended to by_cat[cat], in list order
group(candidates, cat) ==
    {i \in 1..Len(candidates) : cat_of(candidates[i]) = cat}

\* the keys of by_cat in insertion order, each given by the index of the
\* first candidate of that category
RECURSIVE cat_order(_, _)
cat_order(candidates, i) ==
    IF i > Len(candidates) THEN <<>>
    ELSE IF \E j \in 1..(i - 1) : cat_of(candidates[j]) = cat_of(candidates[i])
         THEN cat_order(candidates, i + 1)
         ELSE <<cat_of(candidates[i])>> \o cat_order(candidates, i + 1)

\* scores.sort(key=score, reverse=True); scores[0]: the sort is stable, so
\* among the items of the highest score the first of the list is taken
best_of(idx, score) ==
    CHOOSE i \in idx :
        /\ \A j \in idx : score[j] <= score[i]
        /\ \A j \in idx : score[j] = score[i] => i <= j

\* f"{score:.1f}": the score rounded to tenths of a point (half to even)
Format1f(units) ==
    LET n == 10 * units
        q == n \div ScoreUnit
        r == n % ScoreUnit
    IN  IF 2 * r < ScoreUnit THEN q
        ELSE IF 2 * r > ScoreUnit THEN q + 1
        ELSE IF q % 2 = 0 THEN q ELSE q + 1

recommend_outfit(candidates, temp_c, weather, ties) ==
    LET score == [i \in 1..Len(candidates) |->
                     heuristic_score(candidates[i], temp_c, weather, ties[i])]
        cats == cat_order(candidates, 1)
        best == [k \in 1..Len(cats) |-> best_of(group(candidates, cats[k]), score)]
    IN  [selected |-> [k \in 1..Len(cats) |-> candidates[best[k]]],
         reason |-> [k \in 1..Len(cats) |->
                       [cat |-> cats[k],
                        color |-> Get(candidates[best[k]].features, "color", None),
                        pattern |-> Get(candidates[best[k]].features, "pattern", None),
                        score |-> Format1f(score[best[k]])]]]

\* "\n".join(reasons) has one line per entry of reasons
reason_lines(reason) == Len(reason)

(***************************************************************************)
(* Inputs of the pure functions.  Features follow FeatureSchema of         *)
(* schemas.py: warmth_level is an optional int, is_rain_ok an optional     *)
(* bool; a key may be absent from the dict.                                *)
(***************************************************************************)
WarmthValues == {None} \cup {JInt(n) : n \in 0..5}
RainValues == {None, JBool(TRUE), JBool(FALSE)}

FeatureDicts ==
    {<<>>}
    \cup {[warmth_level |-> w] : w \in WarmthValues}
    \cup {[is_rain_ok |-> r] : r \in RainValues}
    \cup {[warmth_level |-> w, is_rain_ok |-> r] : w \in WarmthValues, r \in RainValues}

ScoreItems == {[cloth_id |-> "c1", category |-> "top", features |-> f] : f \in FeatureDicts}

Temperatures == {-2, 5, 6, 12, 13, 18, 19, 24, 25, 30}

Weathers == {<<"r", "a", "i", "n">>, <<"R", "a", "i", "n">>, <<"R", "A", "I", "N">>,
             <<"r", "a", "i", "n", "y">>, <<"r", "a", "i">>, <<>>,
             <<"d", "r", "a", "i", "n">>, <<"c", "l", "e", "a", "r">>}

\* candidates of recommend_outfit, before their cloth_id is given
SelectTemplates ==
    {[category |-> "top", features |-> [warmth_level |-> JInt(5), is_rain_ok |-> JBool(r)]] :
        r \in BOOLEAN}
    \cup {[category |-> "top", features |-> [warmth_level |-> JInt(1), is_rain_ok |-> JBool(TRUE)]],
          [category |-> "bottom", features |-> [warmth_level |-> JInt(3), is_rain_ok |-> JBool(FALSE)]],
          [category |-> FallbackLabel, features |-> [warmth_level |-> None]],
          [features |-> [color |-> JStr("white")]]}

\* the i-th candidate carries its own cloth_id
WithId(tpl, i) ==
    [k \in DOMAIN tpl \cup {"cloth_id"} |-> IF k = "cloth_id" THEN ToString(i) ELSE tpl[k]]

CandidateLists ==
    UNION {{[i \in 1..n |-> WithId(tpls[i], i)] : tpls \in [1..n -> SelectTemplates]} :
            n \in 1..MaxCandidates}

\* temperature and weather of the calls of recommend_outfit
SelectConditions ==
    {[temp_c |-> 3, weather |-> <<"r", "a", "i", "n">>],
     [temp_c |-> 20, weather |-> <<"c", "l", "e", "a", "r">>]}

NoCall == [fn |-> "none"]
NoRet == [fn |-> "none"]
\* no /recommend request is being served
NoRequest ==
    [pc |-> "idle", user_id |-> "", day |-> 0, temp_c |-> 0, weather |-> <<>>,
     candidates |-> <<>>, cands |-> {}, status |-> 0, clothes |-> {}, reason |-> None,
     path |-> "none", ext_called |-> FALSE, heuristic_called |-> FALSE,
     reply |-> 0]

\* the tables and the request stay empty while a pure function is applied
PureInit ==
    /\ users = <<>>
    /\ clothes = <<>>
    /\ worn_history = EmptyBag
    /\ today = 0
    /\ OPENAI_API_KEY = FALSE
    /\ openai_client = FALSE
    /\ rq = NoRequest
    /\ ret = NoRet

InitScore ==
    /\ PureInit
    /\ call \in {[fn |-> "heuristic_score", item |-> it, temp_c |-> t, weather |-> w] :
                    it \in ScoreItems, t \in Temperatures, w \in Weathers}

ApplyScore ==
    /\ call.fn = "heuristic_score"
    /\ ret = NoRet
    /\ \E tie \in TieBreakers :
          ret' = [fn |-> "heuristic_score", tie |-> tie,
                  score |-> heuristic_score(call.item, call.temp_c, call.weather, tie)]
    /\ UNCHANGED <<dbvars, rq, call>>

ScoreSpec == InitScore /\ [][ApplyScore]_vars

InitSelect ==
    /\ PureInit
    /\ call \in {[fn |-> "recommend_outfit", candidates |-> cs,
                     temp_c |-> c.temp_c, weather |-> c.weather] :
                    cs \in CandidateLists, c \in SelectConditions}

ApplySelect ==
    /\ call.fn = "recommend_outfit"
    /\ ret = NoRet
    /\ \E ties \in [1..Len(call.candidates) -> TieBreakers] :
          ret' = [fn |-> "recommend_outfit", ties |-> ties,
                  result |-> recommend_outfit(call.candidates, call.temp_c, call.weather, ties)]
    /\ UNCHANGED <<dbvars, rq, call>>

SelectSpec == InitSelect /\ [][ApplySelect]_vars

(***************************************************************************)
(* The tables of models.py and the clock.                                  *)
(***************************************************************************)
UserIds == {"u1", "u2"}
\* a well-formed user_id with no row in users
UnknownUser == "u0"
ClothIds == {"c1", "c2", "c3"}
\* a well-formed UUID with no row in clothes
UnknownId == "c0"
\* a string that is no UUID
NotAUuid == "not-a-uuid"
IsUuid(x) == x \in ClothIds \cup {UnknownId}

Statuses == {"ACTIVE", "LAUNDRY", "RETIRED"}

\* the 3 of  user.wash_cycle_days or 3
DefaultWashDays == 3

\* today ranges over 0 .. MaxDay: a garment worn on day 0 is a candidate again
\* within these days under the default cadence
MaxDay == DefaultWashDays + 1

\* users.wash_cycle_days: absent, the smallest and the largest cadence
CadenceValues == {None, JInt(1), JInt(MaxCadence)}

Wardrobe(st) ==
    [c \in ClothIds |->
        CASE c = "c1" -> [user_id |-> "u1", category |-> "top", status |-> "ACTIVE",
                          features |-> [warmth_level |-> JInt(5), is_rain_ok |-> JBool(TRUE),
                                        color |-> JStr("white")]]
          [] c = "c2" -> [user_id |-> "u1", category |-> "top", status |-> st,
                          features |-> [warmth_level |-> JInt(3), is_rain_ok |-> JBool(TRUE)]]
          [] OTHER    -> [user_id |-> "u2", category |-> "bottom", status |-> "ACTIVE",
                          features |-> [warmth_level |-> None, is_rain_ok |-> JBool(FALSE)]]]

Init ==
    /\ users \in {[u \in UserIds |-> IF u = "u1" THEN w ELSE JInt(1)] : w \in CadenceValues}
    /\ clothes \in {Wardrobe(st) : st \in Statuses}
    /\ worn_history = EmptyBag
    /\ today = 0
    /\ OPENAI_API_KEY \in BOOLEAN
    /\ openai_client \in BOOLEAN
    /\ (~OPENAI_API_KEY => ~openai_client)
    /\ rq = NoRequest
    /\ call = NoCall
    /\ ret = NoRet

\* date.today() moves on
DayPasses ==
    /\ rq.pc = "idle"
    /\ today < MaxDay
    /\ today' = today + 1
    /\ UNCHANGED <<users, clothes, worn_history, OPENAI_API_KEY, openai_client,
                   rq, call, ret>>

(***************************************************************************)
(* main.py : wear                                                          *)
(***************************************************************************)
\* one WornHistory(cloth_id=cid, worn_date=date.today()) per entry of cloth_ids
RECURSIVE add_rows(_, _, _)
add_rows(history, cloth_ids, day) ==
    IF cloth_ids = <<>> THEN history
    ELSE add_rows(history (+) SetToBag({[cloth_id |-> Head(cloth_ids), worn_date |-> day]}),
                  Tail(cloth_ids), day)

WearLists == UNION {[1..n -> ClothIds \cup {UnknownId}] : n \in 0..MaxWearList}

\* the rows wear commits: the foreign key of worn_history.cloth_id makes the
\* commit fail as a whole when an id has no row in clothes
wear_rows(user_id, cloth_ids, day) ==
    IF \E i \in 1..Len(cloth_ids) : cloth_ids[i] \notin DOMAIN clothes
    THEN worn_history
    ELSE add_rows(worn_history, cloth_ids, day)

wear(user_id, cloth_ids) ==
    /\ rq.pc = "idle"
    /\ BagCardinality(worn_history) + Len(cloth_ids) <= MaxEvents
    /\ worn_history' = wear_rows(user_id, cloth_ids, today)
    /\ UNCHANGED <<users, clothes, today, OPENAI_API_KEY, openai_client, rq, call, ret>>

Wear == \E u \in UserIds \cup {UnknownUser}, ids \in WearLists : wear(u, ids)

(***************************************************************************)
(* main.py : mock_weather_api.  lat100 and lon100 are int(latitude * 100)  *)
(* and int(longitude * 100).                                               *)
(***************************************************************************)
Rain == <<"r", "a", "i", "n">>
Clear == <<"c", "l", "e", "a", "r">>

mock_weather_api(lat100, lon100) ==
    [weather |-> IF lat100 % 3 # 0 THEN Clear ELSE Rain,
     temp_c |-> 15 + (Abs(lat100) % 15) - (Abs(lon100) % 7)]

Lat100s == {0, -14}
Lon100s == {6}

(***************************************************************************)
(* main.py : recommend, the candidate query                                *)
(***************************************************************************)
\* user.wash_cycle_days or 3
wash_days(user_id) == Or(users[user_id], JInt(DefaultWashDays)).v

\* date.today() - timedelta(days=wash_days)
cutoff_date(user_id, day) == day - wash_days(user_id)

\* (the cutoff day itself left out)
recent_worn_strict(cutoff) ==
    {r.cloth_id : r \in {x \in BagToSet(worn_history) : x.worn_date > cutoff}}
\* select(WornHistory.cloth_id).where(WornHistory.worn_date >= cutoff_date)
recent_worn(cutoff) ==
    {r.cloth_id : r \in {x \in BagToSet(worn_history) : x.worn_date >= cutoff}}

\* (the query without Cloth.status == "ACTIVE")
candidate_ids_not_laundry(user_id, day) ==
    {c \in DOMAIN clothes :
        /\ clothes[c].user_id = user_id
        /\ c \notin recent_worn(cutoff_date(user_id, day))
        /\ clothes[c].status # "LAUNDRY"}
\* the rows of the single query of lines 118-123
candidate_ids(user_id, day) ==
    {c \in DOMAIN clothes :
        /\ clothes[c].user_id = user_id
        /\ clothes[c].status = "ACTIVE"
        /\ c \notin recent_worn(cutoff_date(user_id, day))
        /\ clothes[c].status # "LAUNDRY"}

\* the dict built for a row (image_url is carried along and never read)
projection(c) ==
    [cloth_id |-> c, category |-> clothes[c].category, features |-> clothes[c].features]

\* the rows come back in an order the query does not fix
Orderings(S) ==
    {q \in [1..Cardinality(S) -> S] : \A i, j \in 1..Cardinality(S) : q[i] = q[j] => i = j}

\* (the handler without the check of line 138)
no_candidates_never(candidates) == FALSE
\* if not candidates
no_candidates(candidates) == candidates = <<>>

\* the fixed reason of line 139
NoCandidatesReason == JStr(<<[text |-> "no-candidates-found"]>>)

(***************************************************************************)
(* main.py : recommend, lines 145-161: the identifiers of ai_result and    *)
(* the rows returned for them.  ai_result is a JSON value.                 *)
(***************************************************************************)
ServerError == [status |-> 500, clothes |-> {}, reason |-> None]

\* the result of recommend_outfit as the value get_recommendation returns
local_result(candidates, temp_c, weather, ties) ==
    LET r == recommend_outfit(candidates, temp_c, weather, ties)
    IN  JDict([selected |-> JList([k \in 1..Len(r.selected) |->
                                     JDict([cloth_id |-> JStr(r.selected[k].cloth_id)])]),
               reason |-> JStr(r.reason)])

\* cid = s.get("cloth_id") if isinstance(s, dict) else s
entry_id(s) == IF s.t = "dict" THEN Get(s.v, "cloth_id", None) ELSE s

\* select(Cloth).where(Cloth.cloth_id.in_(selected_ids))
resolve(cids, kept) ==
    {c \in DOMAIN clothes : \E i \in kept : cids[i].t = "str" /\ cids[i].v = c}

respond(ai_result) ==
    IF ai_result.t # "dict" THEN ServerError             \* no .get: AttributeError
    ELSE
    LET sel == Get(ai_result.v, "selected", JList(<<>>))
        iterable == sel.t \in {"list", "str"}
        \* a str iterates over its characters, none of which is a UUID
        items == CASE sel.t = "list" -> sel.v
                   [] sel.t = "str" -> IF sel.v = "" THEN <<>> ELSE <<JStr(NotAUuid)>>
                   [] sel.t \in {"none", "int", "bool"} -> <<>>
        cids == [i \in 1..Len(items) |-> entry_id(items[i])]
        kept == {i \in 1..Len(items) : cids[i].t # "none"}
        unhashable == \E i \in kept : cids[i].t \in {"list", "dict"}
        bad_param == \E i \in kept : ~(cids[i].t = "str" /\ IsUuid(cids[i].v))
        reason == Get(ai_result.v, "reason", JStr(<<>>))
    IN  IF ~iterable THEN ServerError                      \* for over a non-iterable
        ELSE IF unhashable THEN ServerError                \* set.add of a list
        ELSE IF kept # {} /\ bad_param THEN ServerError    \* the driver rejects the id
        ELSE IF reason.t \notin {"str", "int"} THEN ServerError  \* RecommendResponse
        ELSE [status |-> 200,
              clothes |-> IF kept # {} THEN resolve(cids, kept) ELSE {},
              reason |-> reason]

(***************************************************************************)
(* The external model: what chat.completions.create gives back.            *)
(***************************************************************************)
ReplyRaise == [kind |-> "raise"]
\* message.content that is a str: text json.loads rejects, or text of a value
BadText == [kind |-> "content", content |-> [t |-> "text", parses |-> FALSE, value |-> None]]
Text(value) == [kind |-> "content", content |-> [t |-> "text", parses |-> TRUE, value |-> value]]
\* message.content that is None
NoContent == [kind |-> "content", content |-> None]

\* a text is a sequence of lines; the reason the external model words itself
AiReason == JStr(<<[text |-> "ai"]>>)

Pick(entry) == JDict([selected |-> JList(<<entry>>), reason |-> AiReason])

ExternalReplies ==
    << ReplyRaise,
       BadText,
       NoContent,
       Text(JList(<<>>)),
       Text(Pick(JDict([cloth_id |-> JStr("c1")]))),
       Text(Pick(JStr("c3"))),
       Text(Pick(JStr(NotAUuid))),
       Text(Pick(JDict([name |-> JStr("coat")]))),
       Text(Pick(JList(<<>>))),
       Text(JDict([selected |-> JInt(5), reason |-> AiReason])),
       Text(JDict([selected |-> JList(<<JStr("c1")>>), reason |-> None])) >>

(***************************************************************************)
(* main.py : recommend with services/ai_stylist.py : get_recommendation    *)
(* and recommend_with_openai.  The handler runs to the external call, and  *)
(* is resumed when the call returns or raises.  Requests are served one    *)
(* at a time: the tables and the clock change between requests.            *)
(***************************************************************************)
Done(base, r, path, heur) ==
    [base EXCEPT !.pc = "done", !.candidates = <<>>, !.status = r.status, !.clothes = r.clothes,
                 !.reason = r.reason, !.path = path, !.heuristic_called = heur]

\* if not OPENAI_API_KEY or _openai_client is None: raise RuntimeError
client_configured == OPENAI_API_KEY /\ openai_client

recommend(user_id, lat100, lon100) ==
    LET weather_info == mock_weather_api(lat100, lon100)
        base == [NoRequest EXCEPT !.user_id = user_id, !.day = today,
                                  !.temp_c = weather_info.temp_c,
                                  !.weather = weather_info.weather]
    IN
    /\ rq.pc = "idle"
    /\ IF user_id \notin DOMAIN users
       THEN rq' = [base EXCEPT !.pc = "done", !.status = 404, !.path = "error"]
       ELSE \E order \in Orderings(candidate_ids(user_id, today)) :
            LET candidates == [i \in 1..Len(order) |-> projection(order[i])]
                asked == [base EXCEPT !.candidates = candidates,
                                      !.cands = candidate_ids(user_id, today)]
            IN  IF no_candidates(candidates)
                THEN rq' = Done(asked, [status |-> 200, clothes |-> {},
                                        reason |-> NoCandidatesReason], "empty", FALSE)
                ELSE IF OPENAI_API_KEY /\ client_configured
                THEN rq' = [asked EXCEPT !.pc = "awaiting", !.ext_called = TRUE]
                ELSE \E ties \in [1..Len(candidates) -> TieBreakers] :
                         rq' = Done(asked,
                                    respond(local_result(candidates, asked.temp_c,
                                                         asked.weather, ties)),
                                    IF OPENAI_API_KEY THEN "fallback" ELSE "heuristic",
                                    TRUE)
    /\ UNCHANGED <<dbvars, call, ret>>

Recommend ==
    \E u \in UserIds \cup {UnknownUser}, lat100 \in Lat100s, lon100 \in Lon100s :
        recommend(u, lat100, lon100)

\* the awaited call returns or raises, with whatever the service answers
\* (rq.reply keeps the index of the answer in ExternalReplies)
resume(n) ==
    LET reply == ExternalReplies[n]
        raised == \/ reply.kind = "raise"
                  \/ /\ reply.content.t = "text"
                     /\ ~reply.content.parses         \* json.loads raises
        obj == IF reply.content.t = "text" THEN reply.content.value ELSE reply.content
    IN
    /\ rq.pc = "awaiting"
    /\ IF raised
       THEN \E ties \in [1..Len(rq.candidates) -> TieBreakers] :
                rq' = Done([rq EXCEPT !.reply = n],
                           respond(local_result(rq.candidates, rq.temp_c,
                                                    rq.weather, ties)),
                           "fallback", TRUE)
       ELSE rq' = Done([rq EXCEPT !.reply = n], respond(obj), "external", FALSE)
    /\ UNCHANGED <<dbvars, call, ret>>

ExternalReturns == \E n \in 1..Len(ExternalReplies) : resume(n)

\* the response of a finished request goes out
ResponseSent ==
    /\ rq.pc = "done"
    /\ rq' = NoRequest
    /\ UNCHANGED <<dbvars, call, ret>>

Next == DayPasses \/ Wear \/ Recommend \/ ExternalReturns \/ ResponseSent

Spec == Init /\ [][Next]_vars

\* a computed response is always sent; nothing obliges the external service
\* to answer the call a request awaits
FairSpec == Spec /\ WF_vars(ResponseSent)

(***************************************************************************)
(* Properties.                                                             *)
(***************************************************************************)
\* the candidate set the served request built
ReqCands == rq.cands

\* a /recommend request of an existing user has built its candidates
Served == rq.pc \in {"awaiting", "done"} /\ rq.user_id \in DOMAIN users

Rows(c) == {r \in BagToSet(worn_history) : r.cloth_id = c}

\* C1: for a user whose cadence_days is >= 1 (3 when absent), a garment with a
\* wear event dated on or after today - cadence_days is not among the
\* candidates /recommend builds, and an ACTIVE garment of the user all of whose
\* wear events are older is; so a garment /wear recorded on day d is excluded
\* on the days d .. d + cadence_days and is a candidate again on day
\* d + cadence_days + 1 when it is ACTIVE and was not worn later.
C1_RecencyCutoff ==
    Served =>
        LET u == rq.user_id
            cadence == IF users[u].t = "none" THEN 3 ELSE users[u].v
        IN  cadence >= 1 =>
            \A c \in DOMAIN clothes :
                /\ (\E r \in Rows(c) : r.worn_date >= today - cadence) => c \notin ReqCands
                /\ (/\ clothes[c].user_id = u
                    /\ clothes[c].status = "ACTIVE"
                    /\ \A r \in Rows(c) : r.worn_date < today - cadence) => c \in ReqCands
                /\ \A r \in Rows(c) :
                      /\ (r.worn_date <= today /\ today <= r.worn_date + cadence)
                            => c \notin ReqCands
                      /\ (/\ today = r.worn_date + cadence + 1
                          /\ \A x \in Rows(c) : x.worn_date <= r.worn_date
                          /\ clothes[c].user_id = u
                          /\ clothes[c].status = "ACTIVE") => c \in ReqCands

\* a request of u1 (cadence 1) on day 2: c1 was worn on the cutoff day and is
\* excluded, c2 was worn the day before the cutoff and is a candidate again
C1_Witness ==
    /\ Served
    /\ rq.user_id = "u1"
    /\ users["u1"] = JInt(1)
    /\ today = 2
    /\ [cloth_id |-> "c1", worn_date |-> 1] \in BagToSet(worn_history)
    /\ [cloth_id |-> "c2", worn_date |-> 0] \in BagToSet(worn_history)
    /\ ReqCands = {"c2"}

\* C2: a garment whose status is not ACTIVE is never among the candidates
\* /recommend hands to the selection step, whatever its wear history.
C2_OnlyActiveCandidates ==
    Served => \A c \in ReqCands : clothes[c].status = "ACTIVE"

\* a request of u1 is served while c2 is RETIRED and was never worn
C2_Witness ==
    /\ Served
    /\ rq.user_id = "u1"
    /\ clothes["c2"].status = "RETIRED"
    /\ Rows("c2") = {}
    /\ ReqCands = {"c1"}

\* a garment is eligible for the user of the request
Eligible(c, u) ==
    /\ clothes[c].user_id = u
    /\ clothes[c].status = "ACTIVE"
    /\ ~\E r \in Rows(c) : r.worn_date >= today - wash_days(u)

ExternalFailed(reply) ==
    \/ reply.kind = "raise"
    \/ /\ reply.kind = "content"
       /\ \/ reply.content.t = "none"
          \/ ~reply.content.parses
          \/ reply.content.value.t # "dict"
          \/ LET d == reply.content.value.v
             IN  /\ "selected" \in DOMAIN d
                 /\ \/ d.selected.t # "list"
                    \/ \E i \in 1..Len(d.selected.v) :
                          LET e == d.selected.v[i]
                          IN  ~(\/ e.t = "str"
                                \/ e.t = "dict" /\ "cloth_id" \in DOMAIN e.v)

C6_EmptyCandidates ==
    (Served /\ ~\E c \in DOMAIN clothes : Eligible(c, rq.user_id)) =>
        /\ rq.pc = "done"
        /\ rq.status = 200
        /\ rq.clothes = {}
        /\ rq.reason = NoCandidatesReason
        /\ ~rq.ext_called
        /\ ~rq.heuristic_called

\* u1 asks with a configured external client while c1 and c2 were worn today
C6_Witness ==
    /\ rq.pc = "done"
    /\ rq.user_id = "u1"
    /\ OPENAI_API_KEY /\ openai_client
    /\ Rows("c1") # {} /\ Rows("c2") # {}
    /\ rq.path = "empty"

C10_WearIsolation ==
    [][\A a \in UserIds, ids \in WearLists :
          wear(a, ids) =>
              \A b \in UserIds \ {a} : candidate_ids(b, today)' = candidate_ids(b, today)]_vars

(***************************************************************************)
(* Properties of the pure functions, over call (the arguments) and ret     *)
(* (the value returned).                                                   *)
(***************************************************************************)
\* the category a candidate counts under
Label(c) == IF "category" \in DOMAIN c THEN c.category ELSE FallbackLabel

Labels(candidates) == {Label(candidates[i]) : i \in 1..Len(candidates)}

\* C5: for a non-empty candidate list recommend_outfit returns one selected
\* candidate for each distinct category of the input (a missing category
\* counting as the fallback label), each a member of the input with that
\* category; len(selected) and the number of reason lines equal the number of
\* distinct categories.
C5_OnePerCategory ==
    ret.fn = "recommend_outfit" =>
        LET cs == call.candidates
            sel == ret.result.selected
        IN  /\ Len(sel) = Cardinality(Labels(cs))
            /\ reason_lines(ret.result.reason) = Cardinality(Labels(cs))
            /\ \A k \in 1..Len(sel) : \E i \in 1..Len(cs) : sel[k] = cs[i]
            /\ \A lab \in Labels(cs) :
                  Cardinality({k \in 1..Len(sel) : Label(sel[k]) = lab}) = 1

\* three candidates, one without a category and one labelled with the
\* fallback label itself
C5_Witness ==
    /\ ret.fn = "recommend_outfit"
    /\ Len(call.candidates) = 3
    /\ \E i \in 1..3 : "category" \notin DOMAIN call.candidates[i]
    /\ \E i \in 1..3 : Get(call.candidates[i], "category", "top") = FallbackLabel
    /\ Len(ret.result.selected) = 2

\* the weather string starts with "rain" in any case of its letters
DenotesRain(w) ==
    /\ Len(w) >= 4
    /\ w[1] \in {"r", "R"} /\ w[2] \in {"a", "A"} /\ w[3] \in {"i", "I"} /\ w[4] \in {"n", "N"}

Target(temp_c) ==
    CASE temp_c <= 5 -> 5
      [] temp_c > 5 /\ temp_c <= 12 -> 4
      [] temp_c > 12 /\ temp_c <= 18 -> 3
      [] temp_c > 18 /\ temp_c <= 24 -> 2
      [] OTHER -> 1

\* rain-suitability is false or absent (a null value is no value)
RainUnsuitable(f) ==
    \/ "is_rain_ok" \notin DOMAIN f
    \/ f.is_rain_ok.t = "none"
    \/ f.is_rain_ok = JBool(FALSE)

Penalty(f, w) == IF DenotesRain(w) /\ RainUnsuitable(f) THEN 3 ELSE 0

\* the score in points once the tie-breaker is taken off
Deterministic == (ret.score - ret.tie) \div ScoreUnit

ExactPoints == (ret.score - ret.tie) % ScoreUnit = 0 /\ ret.tie \in 0..(TieSteps - 1)

\* C7 as stated: warmth is the warmth level, or 3 when it is missing or null.
C7_ScoreAsStated ==
    ret.fn = "heuristic_score" =>
        LET f == call.item.features
            warmth == IF "warmth_level" \in DOMAIN f /\ f.warmth_level.t = "int"
                      THEN f.warmth_level.v ELSE 3
        IN  /\ ExactPoints
            /\ Deterministic = 10 - Abs(Target(call.temp_c) - warmth) - Penalty(f, call.weather)

\* C7: the score minus its tie-breaker is 10 - |target - warmth| - penalty,
\* with target 5, 4, 3, 2, 1 for temp <= 5, <= 12, <= 18, <= 24 and above,
\* warmth the warmth level, or 3 when it is missing, null or 0, and penalty 3
\* exactly when the weather starts with "rain" (any case) and the
\* rain-suitability is false or absent.
C7_Score ==
    ret.fn = "heuristic_score" =>
        LET f == call.item.features
            warmth == IF /\ "warmth_level" \in DOMAIN f
                         /\ f.warmth_level.t = "int"
                         /\ f.warmth_level.v # 0
                      THEN f.warmth_level.v ELSE 3
        IN  /\ ExactPoints
            /\ Deterministic = 10 - Abs(Target(call.temp_c) - warmth) - Penalty(f, call.weather)

\* a candidate of warmth level 0 without rain-suitability is scored in "RAIN"
\* at 12 degrees: 10 - |4 - 3| - 3 = 6 points
C7_Witness ==
    /\ ret.fn = "heuristic_score"
    /\ call.item.features = [warmth_level |-> JInt(0)]
    /\ call.weather = <<"R", "A", "I", "N">>
    /\ call.temp_c = 12
    /\ Deterministic = 6

\* C9: within a category the selected candidate has the highest score without
\* tie-breaker of that category, whatever the tie-breakers are.
C9_TiesOnly ==
    ret.fn = "recommend_outfit" =>
        LET cs == call.candidates
            sel == ret.result.selected
            det(c) == 10 - Abs(Target(call.temp_c) - warmth_of(c))
                         - Penalty(c.features, call.weather)
        IN  \A k \in 1..Len(sel) : \A i \in 1..Len(cs) :
                Label(cs[i]) = Label(sel[k]) => det(cs[i]) <= det(sel[k])

\* at 3 degrees, tops of warmth 5 and 1 and a bottom of warmth 3: the warmth-5
\* top and the bottom are selected although the warmth-1 top drew the larger
\* tie-breaker
C9_Witness ==
    /\ ret.fn = "recommend_outfit"
    /\ call.temp_c = 3
    /\ Len(call.candidates) = 3
    /\ Label(call.candidates[1]) = "top" /\ warmth_of(call.candidates[1]) = 1
    /\ Label(call.candidates[2]) = "top" /\ warmth_of(call.candidates[2]) = 5
    /\ Label(call.candidates[3]) = "bottom" /\ warmth_of(call.candidates[3]) = 3
    /\ ret.ties[1] > ret.ties[2]
    /\ Len(ret.result.selected) = 2
    /\ ret.result.selected[1] = call.candidates[2]
    /\ ret.result.selected[2] = call.candidates[3]

====
